---- MODULE Spec2Model ----
(***************************************************************************)
(* Model of the cy.component command of react-gears-cypress               *)
(* (src/src/index.ts): argument normalisation, validation, the locate     *)
(* attempt (getValue) over a small DOM tree, and the retry loop           *)
(* (resolveValue) driven by the assertion-verification facility.          *)
(***************************************************************************)
EXTENDS Integers, Sequences, FiniteSets, TLC

VARIABLES
    dom,            \* the live DOM: node -> [tag, text]
    withinSubject,  \* cy.state('withinSubject'): a node, Body, or NoElement
    mutations,      \* number of DOM / scope mutations done by the application
    status,         \* "Idle" | "Pending" | "Retrying" | "Success" | "Failure" | "Threw"
    pc,             \* position inside the call: "idle" | "verify" | "wait" | "done"
    component,      \* argument: the component specification
    rest,           \* argument: the trailing arguments (sequence of JS values)
    prevSubject,    \* argument: the explicit subject, or NoElement
    options,        \* local: normalizeOptions(rest)
    text,           \* local: getText(rest)
    error,          \* the Error thrown by component(), or "none"
    logEntry,       \* local: the Cypress.log record, or NoLog
    logCount,       \* number of Cypress.log calls made
    found,          \* $el right after the query of the current attempt
    reduced,        \* $el after the disambiguation step of the current attempt
    el,             \* $el returned by getValue in the current attempt
    attempts,       \* number of getValue calls (DOM reads)
    verifyCalls,    \* number of cy.verifyUpcomingAssertions calls
    verified,       \* the $el last handed to cy.verifyUpcomingAssertions
    elapsed,        \* time since the command started
    yielded,        \* element set the command settled with, or NoYield
    scope,          \* $subject of the current attempt, or NoElement
    script,         \* the commands the test has queued, in order
    ip,             \* index in script of the command that is running
    values,         \* the value of the control at each node
    clears,         \* the element sets the clear commands have acted on
    raised          \* whether a command chained on a call has raised

vars == <<dom, withinSubject, mutations, status, pc, component, rest, prevSubject,
          options, text, error, logEntry, logCount, found, reduced, el,
          attempts, verifyCalls, verified, elapsed, yielded, scope,
          script, ip, values, clears, raised>>

\* the state of the command queue and of the controls of the page
queueVars == <<script, ip, values, clears, raised>>

-----------------------------------------------------------------------------
(* JavaScript values that can appear among the trailing arguments.         *)

Undefined == [t |-> "undefined"]
JSNull == [t |-> "null"]
JSBool(b) == [t |-> "boolean", b |-> b]
JSNum(n) == [t |-> "number", n |-> n]
\* a string is a sequence of one-character strings
JSStr(s) == [t |-> "string", s |-> s]
\* a pattern /src/ (exact = FALSE) or /^src$/ (exact = TRUE)
JSRegExp(src, exact) == [t |-> "regexp", src |-> src, exact |-> exact]
\* an options fragment; an omitted property reads as Undefined
JSObj(all, log, timeout) == [t |-> "object", all |-> all, log |-> log, timeout |-> timeout]

\* JavaScript truthiness, as used by `&&`, `||`, `!` and `if`
Truthy(v) ==
    CASE v.t = "undefined" -> FALSE
      [] v.t = "null" -> FALSE
      [] v.t = "boolean" -> v.b
      [] v.t = "number" -> v.n # 0
      [] v.t = "string" -> Len(v.s) > 0
      [] OTHER -> TRUE

\* property read v[k]; a primitive or a missing property gives undefined
Prop(v, k) == IF v.t = "object" THEN v[k] ELSE Undefined

\* rest[i] with JavaScript's zero-based index; out of range gives undefined
At(r, i) == IF i + 1 \in DOMAIN r THEN r[i + 1] ELSE Undefined

-----------------------------------------------------------------------------
(* ../interfaces: type guards (not part of the sources at hand).           *)

NoSelector == "undefined"

isText(v) == v.t \in {"string", "regexp"}
isComponent(c) == c.query # NoSelector
isComponentWithText(c) == c.textQuery # NoSelector
isReact(c) == c.react

-----------------------------------------------------------------------------
(* Argument normalisation, src/src/index.ts:75-98                          *)

\* Cypress.config().defaultCommandTimeout, in units of the model's time
DefaultCommandTimeout == 2

\* variant: the default branch returns the first trailing argument
getOptionsFirst(r) ==
    IF Len(r) = 1
    THEN IF Truthy(r[1]) /\ ~isText(r[1]) THEN r[1] ELSE Undefined
    ELSE At(r, 0)

getOptions(r) ==
    IF Len(r) = 1
    THEN IF Truthy(r[1]) /\ ~isText(r[1]) THEN r[1] ELSE Undefined
    ELSE At(r, 1)

getText(r) == IF isText(At(r, 0)) THEN At(r, 0) ELSE Undefined

defl == JSObj(JSBool(FALSE), JSBool(TRUE), JSNum(DefaultCommandTimeout))

normalizeOptions(r) == IF Truthy(getOptions(r)) THEN getOptions(r) ELSE defl

\* line 97: which object normalizeOptions returns: `a || b` yields the operand
\* itself, so the result is the argument the caller passed when getOptions
\* finds one, and the record defl made in this call when it does not
optionsIdentity(r) == IF Truthy(getOptions(r)) THEN "argument" ELSE "defl"

-----------------------------------------------------------------------------
(* The DOM: a fixed tree shape whose nodes carry a mutable tag and a       *)
(* mutable own text.  Node numbers are in document order (preorder).       *)

Body == 0
NoElement == -1
\* Parent[n]: the parent of node n; 1 > 2 > 3 is a nesting chain, 4 is a
\* sibling of 2 inside 1
Parent == <<Body, 1, 2, 1>>
Nodes == DOMAIN Parent
AllNodes == [i \in Nodes |-> i]

RECURSIVE Contains(_, _)
\* $.contains(a, b): b is a proper descendant of a
Contains(a, b) ==
    IF b = Body \/ b = NoElement \/ a = NoElement THEN FALSE
    ELSE Parent[b] = a \/ Contains(a, Parent[b])

\* the members of a set of nodes as a sequence in document order
DocOrder(S) == SelectSeq(AllNodes, LAMBDA n : n \in S)

RECURSIVE Concat(_, _)
Concat(d, ns) == IF ns = <<>> THEN <<>> ELSE d[Head(ns)].text \o Concat(d, Tail(ns))

\* jQuery .text(): the text of the node and of all its descendants, in
\* document order
RenderedText(d, n) == Concat(d, DocOrder({m \in Nodes : m = n \/ Contains(n, m)}))

IsSubstring(lit, s) ==
    \E i \in 0..(Len(s) - Len(lit)) : SubSeq(s, i + 1, i + Len(lit)) = lit

\* does the rendered text s satisfy the text criterion?
TextMatches(txt, s) ==
    CASE txt.t = "string" -> IsSubstring(txt.s, s)
      [] txt.t = "regexp" -> IF txt.exact THEN s = txt.src ELSE IsSubstring(txt.src, s)
      [] OTHER -> FALSE

\* $subject.find(selector): the descendants of the subject with that tag
find(d, subject, selector) ==
    DocOrder({n \in Nodes : Contains(subject, n) /\ d[n].tag = selector})

-----------------------------------------------------------------------------
(* ./internals/text and ./internals/driver (not part of the sources at     *)
(* hand): modelled from their contracts.                                    *)

findAllByText(d, subject, selector, txt) ==
    DocOrder({n \in Nodes : /\ Contains(subject, n)
                            /\ d[n].tag = selector
                            /\ TextMatches(txt, RenderedText(d, n))})

\* stable sort, shortest rendered text first
orderByInnerText(d, s) ==
    LET key(i) == Len(RenderedText(d, s[i]))
        rank(i) == Cardinality({j \in DOMAIN s :
                       key(j) < key(i) \/ (key(j) = key(i) /\ j < i)}) + 1
    IN [k \in DOMAIN s |-> s[CHOOSE i \in DOMAIN s : rank(i) = k]]

RECURSIVE deepestFrom(_, _)
\* walk the pairs (current, next) while current contains next
deepestFrom(s, index) ==
    IF index + 1 > Len(s) THEN <<>>
    ELSE IF index + 2 <= Len(s) /\ Contains(s[index + 1], s[index + 2])
         THEN deepestFrom(s, index + 1)
         ELSE <<s[index + 1]>>

getFirstDeepestElement(s) == deepestFrom(s, 0)

-----------------------------------------------------------------------------
(* Component specifications (descriptors), supplied by the caller.         *)

\* traverse / traverseViaText are named jQuery traversals; "none" = not set
Descriptor(react, name, query, textQuery, traverse, traverseViaText) ==
    [react |-> react, name |-> name, query |-> query, textQuery |-> textQuery,
     traverse |-> traverse, traverseViaText |-> traverseViaText]

\* the jQuery set a traversal callback returns for the element n
ApplyTraversal(tr, n) ==
    CASE tr = "self" -> <<n>>
      [] tr = "parent" -> IF n = Body THEN <<>> ELSE <<Parent[n]>>
      [] tr = "children" -> DocOrder({m \in Nodes : Parent[m] = n})
      [] OTHER -> <<>>

-----------------------------------------------------------------------------
(* The locate attempt, src/src/index.ts:100-105 and 171-194                *)

\* variant: the last element of each callback result is taken
mapAllLast(collection, callback) ==
    LET images == [i \in DOMAIN collection |-> ApplyTraversal(callback, collection[i])]
        kept == SelectSeq(images, LAMBDA s : Len(s) > 0)
    IN [i \in DOMAIN kept |-> kept[i][Len(kept[i])]]

\* $collection.map(...): the first element of each callback result; jQuery's
\* map leaves out the results that are undefined
mapAll(collection, callback) ==
    LET images == [i \in DOMAIN collection |-> ApplyTraversal(callback, collection[i])]
        kept == SelectSeq(images, LAMBDA s : Len(s) > 0)
    IN [i \in DOMAIN kept |-> kept[i][1]]

\* prevSubject || cy.state('withinSubject') || cy.$$('body')
resolveSubject(prev, within) ==
    IF prev # NoElement THEN prev ELSE IF within # NoElement THEN within ELSE Body

\* the path condition of getValue: text && isComponentWithText(component)
byText(c, txt) == Truthy(txt) /\ isComponentWithText(c)

\* variant: the query starts from the document body, not from the subject
queryElementsAnywhere(d, subject, c, txt) ==
    IF byText(c, txt)
    THEN findAllByText(d, Body, c.textQuery, txt)
    ELSE find(d, Body, c.query)

\* line 177 / line 183: the query of the attempt
queryElements(d, subject, c, txt) ==
    IF byText(c, txt)
    THEN findAllByText(d, subject, c.textQuery, txt)
    ELSE find(d, subject, c.query)

\* variant: the candidates are ordered by their text and all of them are kept
reduceByTextOrderOnly(d, s, opts) ==
    IF Len(s) # 0 /\ ~Truthy(Prop(opts, "all"))
    THEN orderByInnerText(d, s)
    ELSE s

\* lines 178-179: disambiguation on the text path
reduceByText(d, s, opts) ==
    IF Len(s) # 0 /\ ~Truthy(Prop(opts, "all"))
    THEN getFirstDeepestElement(orderByInnerText(d, s))
    ELSE s

\* variant: the first candidate is kept instead of the deepest
reduceByQueryFirst(s, opts) ==
    IF Len(s) > 1 /\ ~Truthy(Prop(opts, "all")) THEN <<Head(s)>> ELSE s

\* variant: the all option is not consulted
reduceByQueryAlways(s, opts) ==
    IF Len(s) > 1 THEN getFirstDeepestElement(s) ELSE s

\* line 184: disambiguation on the structural path
reduceByQuery(s, opts) ==
    IF Len(s) > 1 /\ ~Truthy(Prop(opts, "all"))
    THEN getFirstDeepestElement(s)
    ELSE s

\* lines 180-181 and 185-186: the traversal transform of the path taken
traverseElements(s, c, txt) ==
    LET tr == IF byText(c, txt) THEN c.traverseViaText ELSE c.traverse
    IN IF Len(s) # 0 /\ tr # "none" THEN mapAll(s, tr) ELSE s

\* getValue, with the intermediate values of $el kept
getValue(d, prev, within, c, txt, opts) ==
    LET subject == resolveSubject(prev, within)
        q == queryElements(d, subject, c, txt)
        r == IF byText(c, txt) THEN reduceByText(d, q, opts) ELSE reduceByQuery(q, opts)
    IN [subject |-> subject, found |-> q, reduced |-> r,
        el |-> traverseElements(r, c, txt)]

-----------------------------------------------------------------------------
(* Bounds of the model.                                                     *)

\* the application changes the DOM at most this many times in a behaviour
MaxMutations == 1
\* the facility's wait before a retry lasts 1..MaxInterval units of time
MaxInterval == 2

-----------------------------------------------------------------------------
(* The command, src/src/index.ts:107-211                                   *)

\* a value of $el / Yielded that has not been set
NotSet == <<NoElement>>
NoLog == [t |-> "none"]

\* variant: the text capability of the component is not checked
validateShapeOnly(c, txt) ==
    IF ~isComponent(c)
    THEN IF isReact(c) THEN "react" ELSE "invalid"
    ELSE "none"

\* variant: the text capability is checked before the shape of the component
validateTextFirst(c, txt) ==
    IF Truthy(txt) /\ ~isComponentWithText(c)
    THEN "notext"
    ELSE IF ~isComponent(c)
         THEN IF isReact(c) THEN "react" ELSE "invalid"
         ELSE "none"

\* lines 115-125: the Error thrown before anything else is done, or "none"
validate(c, txt) ==
    IF ~isComponent(c)
    THEN IF isReact(c) THEN "react" ELSE "invalid"
    ELSE IF Truthy(txt) /\ ~isComponentWithText(c) THEN "notext" ELSE "none"

\* variant: the record is made only when options.log is truthy
makeLogIfTruthy(c, r, txt, opts, prev, within) ==
    IF Truthy(Prop(opts, "log"))
    THEN LET loggableOptions == getOptions(r)
             appliesTo == IF prev # NoElement THEN prev ELSE within
         IN [t |-> "log",
             name |-> "component",
             message |-> <<[t |-> "name", s |-> c.name]>>
                         \o (IF Truthy(txt) THEN <<txt>> ELSE <<>>)
                         \o (IF Truthy(loggableOptions) THEN <<loggableOptions>> ELSE <<>>),
             type |-> IF appliesTo # NoElement THEN "child" ELSE "parent",
             appliesTo |-> appliesTo,
             Yielded |-> NotSet,
             Elements |-> NoElement,
             el |-> NotSet]
    ELSE NoLog

\* lines 131-157: the record handed to Cypress.log, or NoLog
makeLog(c, r, txt, opts, prev, within) ==
    IF Prop(opts, "log") # JSBool(FALSE)
    THEN LET loggableOptions == getOptions(r)
             appliesTo == IF prev # NoElement THEN prev ELSE within
         IN [t |-> "log",
             name |-> "component",
             message |-> <<[t |-> "name", s |-> c.name]>>
                         \o (IF Truthy(txt) THEN <<txt>> ELSE <<>>)
                         \o (IF Truthy(loggableOptions) THEN <<loggableOptions>> ELSE <<>>),
             type |-> IF appliesTo # NoElement THEN "child" ELSE "parent",
             appliesTo |-> appliesTo,
             Yielded |-> NotSet,
             Elements |-> NoElement,
             el |-> NotSet]
    ELSE NoLog

\* lines 159-166: setEl($el)
setEl(entry, e) ==
    IF entry # NoLog
    THEN [entry EXCEPT !.Yielded = e, !.Elements = Len(e), !.el = e]
    ELSE entry

\* the retry budget the verification facility works with: options.timeout,
\* or the ambient default when the options carry none
timeoutOf(opts) ==
    IF Prop(opts, "timeout").t = "number"
    THEN Prop(opts, "timeout").n
    ELSE DefaultCommandTimeout

\* whether the facility gives up after a failed check (timeout exceeded)
timedOut(opts, now) == now >= timeoutOf(opts)

\* lines 127-157 and the first resolveValue(): the log record is made and
\* Promise.try runs the first getValue synchronously
Begin(c, r, prev) ==
    LET v == getValue(dom, prev, withinSubject, c, getText(r), normalizeOptions(r))
    IN /\ logEntry' = makeLog(c, r, getText(r), normalizeOptions(r), prev, withinSubject)
       /\ logCount' = IF logEntry' # NoLog THEN logCount + 1 ELSE logCount
       /\ found' = v.found
       /\ reduced' = v.reduced
       /\ el' = v.el
       /\ scope' = v.subject
       /\ attempts' = attempts + 1

\* variant: the arguments are validated after the log record has been made
\* and the first getValue has run
InvokeValidatingLate(c, r, prev) ==
    /\ status = "Idle"
    /\ component' = c
    /\ rest' = r
    /\ prevSubject' = prev
    /\ options' = normalizeOptions(r)
    /\ text' = getText(r)
    /\ error' = validate(c, getText(r))
    /\ IF isComponent(c) THEN Begin(c, r, prev)
       ELSE UNCHANGED <<logEntry, logCount, found, reduced, el, attempts, scope>>
    /\ IF validate(c, getText(r)) # "none"
       THEN status' = "Threw" /\ pc' = "done"
       ELSE status' = "Pending" /\ pc' = "verify"
    /\ UNCHANGED <<dom, withinSubject, mutations, verifyCalls, verified, elapsed, yielded>>
    /\ UNCHANGED queueVars

\* component(prevSubject, component, ...rest), up to the return of cy.wrap
Invoke(c, r, prev) ==
    /\ status = "Idle"
    /\ component' = c
    /\ rest' = r
    /\ prevSubject' = prev
    /\ options' = normalizeOptions(r)
    /\ text' = getText(r)
    /\ error' = validate(c, getText(r))
    /\ IF validate(c, getText(r)) # "none"
       THEN /\ status' = "Threw"
            /\ pc' = "done"
            /\ UNCHANGED <<logEntry, logCount, found, reduced, el, attempts, scope>>
       ELSE /\ Begin(c, r, prev)
            /\ status' = "Pending"
            /\ pc' = "verify"
    /\ UNCHANGED <<dom, withinSubject, mutations, verifyCalls, verified, elapsed, yielded>>
    /\ UNCHANGED queueVars

\* variant: onPass reports the element and the command keeps retrying
VerifyThenRetry(pass) ==
    /\ pc = "verify"
    /\ verifyCalls' = verifyCalls + 1
    /\ verified' = el
    /\ IF pass
       THEN /\ logEntry' = setEl(logEntry, el)
            /\ yielded' = el
            /\ status' = "Success"
            /\ pc' = "wait"
       ELSE /\ IF timedOut(options, elapsed)
               THEN status' = "Failure" /\ pc' = "done"
               ELSE status' = "Retrying" /\ pc' = "wait"
            /\ UNCHANGED <<logEntry, yielded>>
    /\ UNCHANGED <<dom, withinSubject, mutations, component, rest, prevSubject,
                   options, text, error, logCount, found, reduced, el, attempts,
                   elapsed, scope>>
    /\ UNCHANGED queueVars

\* variant: the facility is handed the default options, not the call's
VerifyWithDefaults(pass) ==
    /\ pc = "verify"
    /\ verifyCalls' = verifyCalls + 1
    /\ verified' = el
    /\ IF pass
       THEN /\ logEntry' = setEl(logEntry, el)
            /\ yielded' = el
            /\ status' = "Success"
            /\ pc' = "done"
       ELSE /\ IF timedOut(defl, elapsed)
               THEN status' = "Failure" /\ pc' = "done"
               ELSE status' = "Retrying" /\ pc' = "wait"
            /\ UNCHANGED <<logEntry, yielded>>
    /\ UNCHANGED <<dom, withinSubject, mutations, component, rest, prevSubject,
                   options, text, error, logCount, found, reduced, el, attempts,
                   elapsed, scope>>
    /\ UNCHANGED queueVars

\* the .then callback of resolveValue: cy.verifyUpcomingAssertions($el,
\* options, {onRetry, onPass}) checks the chained assertions against $el
Verify(pass) ==
    /\ pc = "verify"
    /\ verifyCalls' = verifyCalls + 1
    /\ verified' = el
    /\ IF pass
       THEN \* onPass: () => setEl($el)
            /\ logEntry' = setEl(logEntry, el)
            /\ yielded' = el
            /\ status' = "Success"
            /\ pc' = "done"
       ELSE /\ IF timedOut(options, elapsed)
               THEN status' = "Failure" /\ pc' = "done"
               ELSE status' = "Retrying" /\ pc' = "wait"
            /\ UNCHANGED <<logEntry, yielded>>
    /\ UNCHANGED <<dom, withinSubject, mutations, component, rest, prevSubject,
                   options, text, error, logCount, found, reduced, el, attempts,
                   elapsed, scope>>
    /\ UNCHANGED queueVars

\* variant: a retry hands on the element set of the attempt before it
RetryStale(dt) ==
    /\ pc = "wait"
    /\ elapsed' = elapsed + dt
    /\ attempts' = attempts + 1
    /\ pc' = "verify"
    /\ UNCHANGED <<dom, withinSubject, mutations, status, component, rest,
                   prevSubject, options, text, error, logEntry, logCount,
                   found, reduced, el, verifyCalls, verified, yielded, scope>>
    /\ UNCHANGED queueVars

\* variant: a retry searches the scope that the first attempt resolved
RetryCachedScope(dt) ==
    /\ pc = "wait"
    /\ elapsed' = elapsed + dt
    /\ LET v == getValue(dom, scope, NoElement, component, text, options)
       IN /\ found' = v.found
          /\ reduced' = v.reduced
          /\ el' = v.el
          /\ scope' = v.subject
    /\ attempts' = attempts + 1
    /\ pc' = "verify"
    /\ UNCHANGED <<dom, withinSubject, mutations, status, component, rest,
                   prevSubject, options, text, error, logEntry, logCount,
                   verifyCalls, verified, yielded>>
    /\ UNCHANGED queueVars

\* variant: every attempt makes a log record of its own
RetryLoggingAgain(dt) ==
    /\ pc = "wait"
    /\ elapsed' = elapsed + dt
    /\ LET v == getValue(dom, prevSubject, withinSubject, component, text, options)
       IN /\ found' = v.found
          /\ reduced' = v.reduced
          /\ el' = v.el
          /\ scope' = v.subject
    /\ logEntry' = makeLog(component, rest, text, options, prevSubject, withinSubject)
    /\ logCount' = IF logEntry' # NoLog THEN logCount + 1 ELSE logCount
    /\ attempts' = attempts + 1
    /\ pc' = "verify"
    /\ UNCHANGED <<dom, withinSubject, mutations, status, component, rest,
                   prevSubject, options, text, error, verifyCalls, verified,
                   yielded>>
    /\ UNCHANGED queueVars

\* onRetry: resolveValue, called by the facility after its wait interval
Retry(dt) ==
    /\ pc = "wait"
    /\ elapsed' = elapsed + dt
    /\ LET v == getValue(dom, prevSubject, withinSubject, component, text, options)
       IN /\ found' = v.found
          /\ reduced' = v.reduced
          /\ el' = v.el
          /\ scope' = v.subject
    /\ attempts' = attempts + 1
    /\ pc' = "verify"
    /\ UNCHANGED <<dom, withinSubject, mutations, status, component, rest,
                   prevSubject, options, text, error, logEntry, logCount,
                   verifyCalls, verified, yielded>>
    /\ UNCHANGED queueVars

\* the application under test changes one element of the live DOM while the
\* command is in flight or after it has settled
Mutate(n, e) ==
    /\ status \notin {"Idle", "Threw"}
    /\ mutations < MaxMutations
    /\ dom[n] # e
    /\ dom' = [dom EXCEPT ![n] = e]
    /\ mutations' = mutations + 1
    /\ UNCHANGED <<withinSubject, status, pc, component, rest, prevSubject, options,
                   text, error, logEntry, logCount, found, reduced, el, attempts,
                   verifyCalls, verified, elapsed, yielded, scope>>
    /\ UNCHANGED queueVars

\* the ambient scope changes while the command is in flight: another value of
\* cy.state('withinSubject') is there for the next read
SetWithin(s) ==
    /\ status \in {"Pending", "Retrying"}
    /\ mutations < MaxMutations
    /\ s # withinSubject
    /\ withinSubject' = s
    /\ mutations' = mutations + 1
    /\ UNCHANGED <<dom, status, pc, component, rest, prevSubject, options, text,
                   error, logEntry, logCount, found, reduced, el, attempts,
                   verifyCalls, verified, elapsed, yielded, scope>>
    /\ UNCHANGED queueVars

-----------------------------------------------------------------------------
(* Inputs.                                                                  *)

Tags == {"div", "label"}
Texts == {<<>>, <<"a">>, <<"b">>}
Elements == [tag : Tags, text : Texts]
AllDoms == [Nodes -> Elements]

Elem(tag, txt) == [tag |-> tag, text |-> txt]

\* labelled fields: a div holding a label "a" (which holds a nested label)
\* and a label "b"
FormDom == <<Elem("div", <<>>), Elem("label", <<"a">>), Elem("label", <<>>),
             Elem("label", <<"b">>)>>
\* nested divs without text
NestedDom == <<Elem("div", <<>>), Elem("div", <<>>), Elem("div", <<>>),
               Elem("label", <<>>)>>
\* nothing that any query matches by text
BareDom == <<Elem("label", <<>>), Elem("label", <<>>), Elem("label", <<>>),
             Elem("label", <<>>)>>

Plain == Descriptor(FALSE, "Plain", "div", NoSelector, "none", "none")
Block == Descriptor(FALSE, "Block", "div", NoSelector, "children", "none")
Input == Descriptor(FALSE, "Input", "div", "label", "parent", "parent")
Button == Descriptor(FALSE, "Button", "label", "label", "none", "none")
Group == Descriptor(FALSE, "Group", "div", "div", "none", "children")
ReactComponent == Descriptor(TRUE, "FormLabelGroup", NoSelector, NoSelector, "none", "none")
Garbage == Descriptor(FALSE, "undefined", NoSelector, NoSelector, "none", "none")
TextOnly == Descriptor(FALSE, "TextOnly", NoSelector, "label", "none", "none")

Components == {Plain, Block, Input, Button, Group, ReactComponent, Garbage, TextOnly}
ValidComponents == {c \in Components : isComponent(c)}

StrA == JSStr(<<"a">>)
StrAB == JSStr(<<"a", "b">>)
StrEmpty == JSStr(<<>>)

TextValues == {StrEmpty, StrA, StrAB, JSRegExp(<<"a">>, FALSE), JSRegExp(<<"a">>, TRUE)}

Fragments ==
    {JSObj(a, l, t) : a \in {Undefined, JSBool(FALSE), JSBool(TRUE)},
                      l \in {Undefined, JSBool(FALSE), JSBool(TRUE)},
                      t \in {Undefined, JSNum(0), JSNum(1)}}

\* every kind of value a caller can pass after the component
Values == {Undefined, JSNull, JSBool(FALSE), JSBool(TRUE), JSNum(0), JSNum(5)}
              \cup TextValues \cup Fragments

\* the trailing arguments: none, one or two values
AllRest == {<<>>} \cup {<<v>> : v \in Values} \cup {<<v, w>> : v, w \in Values}

-----------------------------------------------------------------------------
(* Specifications.                                                          *)

InitCall ==
    /\ mutations = 0
    /\ status = "Idle"
    /\ pc = "idle"
    /\ component = Garbage
    /\ rest = <<>>
    /\ prevSubject = NoElement
    /\ options = Undefined
    /\ text = Undefined
    /\ error = "none"
    /\ logEntry = NoLog
    /\ logCount = 0
    /\ found = NotSet
    /\ reduced = NotSet
    /\ el = NotSet
    /\ attempts = 0
    /\ verifyCalls = 0
    /\ verified = NotSet
    /\ elapsed = 0
    /\ yielded = NotSet
    /\ scope = NoElement

\* no test script: the one call is all there is
NoScript ==
    /\ script = <<>>
    /\ ip = 1
    /\ values = [n \in Nodes \cup {Body} |-> <<>>]
    /\ clears = <<>>
    /\ raised = FALSE

\* one call of the command against a DOM that the application keeps changing
MainComponents == {Plain, Input, Button, ReactComponent}
MainRest ==
    {<<>>, <<StrA>>, <<StrEmpty>>,
     <<JSObj(Undefined, Undefined, JSNum(0))>>,
     <<StrA, JSObj(JSBool(FALSE), JSBool(TRUE), JSNum(1))>>,
     <<StrA, JSObj(JSBool(TRUE), JSBool(FALSE), JSNum(0))>>,
     <<JSObj(JSBool(TRUE), Undefined, JSNum(1))>>,
     <<StrA, JSObj(Undefined, Undefined, JSNum(1))>>}
MainMutations == {Elem("label", <<"a">>), Elem("div", <<>>)}

Init ==
    /\ dom \in {FormDom, NestedDom, BareDom}
    /\ withinSubject \in {NoElement, 1}
    /\ InitCall
    /\ NoScript

Start ==
    /\ status = "Idle"
    /\ \E c \in MainComponents, r \in MainRest, prev \in {NoElement, 1} :
           Invoke(c, r, prev)

Next ==
    \/ Start
    \/ \E pass \in BOOLEAN : Verify(pass)
    \/ \E dt \in 1..MaxInterval : Retry(dt)
    \/ \E n \in Nodes, e \in MainMutations : Mutate(n, e)

Spec == Init /\ [][Next]_vars

\* the argument shapes: every component with every list of trailing
\* arguments, against a few DOMs
InitArgs ==
    /\ dom \in {FormDom, NestedDom, BareDom}
    /\ withinSubject = NoElement
    /\ InitCall
    /\ NoScript

StartArgs ==
    /\ status = "Idle"
    /\ \E c \in Components, r \in AllRest, prev \in {NoElement, 1} : Invoke(c, r, prev)

NextArgs == StartArgs

SpecArgs == InitArgs /\ [][NextArgs]_vars

\* the locate attempt: every valid component against every DOM
LocateOptions ==
    {JSObj(JSBool(TRUE), Undefined, Undefined), JSObj(JSBool(FALSE), Undefined, Undefined),
     JSObj(Undefined, JSBool(FALSE), Undefined)}
LocateRest ==
    {<<>>} \cup {<<t>> : t \in TextValues} \cup {<<o>> : o \in LocateOptions}
           \cup {<<t, o>> : t \in TextValues, o \in LocateOptions}

InitLocate ==
    /\ dom \in AllDoms
    /\ withinSubject = NoElement
    /\ InitCall
    /\ NoScript

StartLocate ==
    /\ status = "Idle"
    /\ \E c \in ValidComponents, r \in LocateRest, prev \in {NoElement, 1} :
           Invoke(c, r, prev)

NextLocate == StartLocate

SpecLocate == InitLocate /\ [][NextLocate]_vars

\* one call while the ambient scope changes between its attempts
ScopeComponents == {Plain, Button}
ScopeRest == {<<>>, <<StrA>>, <<StrA, JSObj(JSBool(TRUE), JSBool(TRUE), JSNum(1))>>}
Scopes == {NoElement, Body, 1, 2}

InitScope ==
    /\ dom \in {FormDom, NestedDom}
    /\ withinSubject \in Scopes
    /\ InitCall
    /\ NoScript

StartScope ==
    /\ status = "Idle"
    /\ \E c \in ScopeComponents, r \in ScopeRest, prev \in {NoElement, 1} :
           Invoke(c, r, prev)

NextScope ==
    \/ StartScope
    \/ \E pass \in BOOLEAN : Verify(pass)
    \/ \E dt \in 1..MaxInterval : Retry(dt)
    \/ \E s \in Scopes : SetWithin(s)

SpecScope == InitScope /\ [][NextScope]_vars

\* the tests 'clears DateInput' and 'clears values' as queues of commands:
\* a located component is cleared, then located again and checked or cleared
ClearsDateInput == <<"component", "clear", "component", "should">>
ClearsValues == <<"component", "clear", "component", "clear">>
Scripts == {ClearsDateInput, ClearsValues}
ControlValues == {<<>>, <<"x">>}

\* the command queued after the one that is running, or "end"
following == IF ip < Len(script) THEN script[ip + 1] ELSE "end"

\* variant: the command is over for the queue as soon as component() returns
commandDoneAtReturn == pc # "idle"

\* line 211: component() returns cy.wrap(resolveValue(), ...), so the queue
\* takes the command as done when the promise of resolveValue has settled
commandDone == pc = "done"

\* variant: nothing is handed on to the command chained on the call
subjectOfChainLost == NotSet

\* lines 165 and 206: onPass returns setEl($el), which returns $el: the
\* yielded element set is the subject of the command chained on the call
subjectOfChain == yielded

\* whether the assertions that apply to the running call pass for $el: the
\* existence of an element and, before .should('have.value', ''), the empty
\* value of every element
assertionPasses ==
    /\ el # <<>>
    /\ following = "should" => \A i \in DOMAIN el : values[el[i]] = <<>>

\* the queue goes over to its next component command: the state of the
\* call that is over is dropped
ResetCall ==
    /\ status' = "Idle"
    /\ pc' = "idle"
    /\ component' = Garbage
    /\ rest' = <<>>
    /\ prevSubject' = NoElement
    /\ options' = Undefined
    /\ text' = Undefined
    /\ error' = "none"
    /\ logEntry' = NoLog
    /\ logCount' = 0
    /\ found' = NotSet
    /\ reduced' = NotSet
    /\ el' = NotSet
    /\ attempts' = 0
    /\ verifyCalls' = 0
    /\ verified' = NotSet
    /\ elapsed' = 0
    /\ yielded' = NotSet
    /\ scope' = NoElement

\* cy.component(comp.Input, 'some label') is taken from the queue
StartQueue ==
    /\ status = "Idle"
    /\ ~raised
    /\ ip <= Len(script)
    /\ script[ip] = "component"
    /\ Invoke(Input, <<StrA>>, NoElement)

\* the facility checks the assertions of the test against $el
CheckQueue == Verify(assertionPasses)

\* .clear() chained on the call: it empties the value of every element of
\* its subject, whatever the value was, and raises without a subject
Clear ==
    /\ following = "clear"
    /\ commandDone
    /\ status \notin {"Idle", "Failure", "Threw"}
    /\ IF subjectOfChain = NotSet \/ subjectOfChain = <<>>
       THEN /\ raised' = TRUE
            /\ UNCHANGED <<values, clears>>
       ELSE /\ raised' = FALSE
            /\ values' = [n \in Nodes \cup {Body} |->
                             IF \E i \in DOMAIN subjectOfChain : subjectOfChain[i] = n
                             THEN <<>> ELSE values[n]]
            /\ clears' = Append(clears,
                                [on |-> subjectOfChain,
                                 had |-> \E i \in DOMAIN subjectOfChain :
                                            values[subjectOfChain[i]] # <<>>,
                                 after |-> attempts])
    /\ ip' = ip + 2
    /\ ResetCall
    /\ UNCHANGED <<dom, withinSubject, mutations, script>>

\* .should('have.value', '') has passed with the call: the queue moves on
Should ==
    /\ following = "should"
    /\ commandDone
    /\ status \notin {"Idle", "Failure", "Threw"}
    /\ ip' = ip + 2
    /\ ResetCall
    /\ UNCHANGED <<dom, withinSubject, mutations, script, values, clears, raised>>

InitQueue ==
    /\ dom \in {FormDom, BareDom}
    /\ withinSubject = NoElement
    /\ InitCall
    /\ script \in Scripts
    /\ ip = 1
    /\ values \in [Nodes \cup {Body} -> ControlValues]
    /\ clears = <<>>
    /\ raised = FALSE

NextQueue ==
    \/ StartQueue
    \/ CheckQueue
    \/ \E dt \in 1..MaxInterval : Retry(dt)
    \/ \E n \in Nodes, e \in MainMutations : Mutate(n, e)
    \/ Clear
    \/ Should

SpecQueue == InitQueue /\ [][NextQueue]_vars

-----------------------------------------------------------------------------
(* Properties of the retry loop and of validation, under Spec.             *)

Settled == {"Success", "Failure"}

\* what a fresh locate attempt would return in the current state
FreshValue == getValue(dom, prevSubject, withinSubject, component, text, options)

\* C1: within one call the resolver only moves Pending -> Retrying ->
\* Success | Failure; once it has settled, the outcome, the yielded set and
\* the numbers of locate attempts and of assertion checks never change
\* again, whatever the DOM does and whatever the assertions answered.
C1_SettledIsTerminal ==
    [][ /\ status = "Pending" => status' \in {"Pending", "Retrying"} \cup Settled
        /\ status = "Retrying" => status' \in {"Retrying"} \cup Settled
        /\ status \in Settled =>
              /\ status' = status
              /\ yielded' = yielded
              /\ attempts' = attempts
              /\ verifyCalls' = verifyCalls
              /\ el' = el ]_vars

\* a call that settled after a retry, the DOM having changed since so that a
\* further attempt would read something else
C1_Witness ==
    /\ status \in Settled
    /\ attempts >= 2
    /\ mutations > 0
    /\ FreshValue.el # el

\* C3: a call that raised a validation error made no locate attempt: no DOM
\* read, no log record, no assertion check, no retry.
C3_ValidationBeforeAnything ==
    status = "Threw" =>
        /\ error # "none"
        /\ attempts = 0
        /\ verifyCalls = 0
        /\ logCount = 0
        /\ logEntry = NoLog
        /\ found = NotSet
        /\ el = NotSet
        /\ pc = "done"

\* a text criterion against a component without text capability, logging on,
\* with candidates for its query in the DOM
C3_Witness ==
    /\ status = "Threw"
    /\ error = "notext"
    /\ Prop(options, "log") = JSBool(TRUE)
    /\ FreshValue.found # <<>>

\* C4: with options.timeout = T a call settles as failure only when the
\* elapsed time has reached T, and it never waits for a retry once the
\* elapsed time has reached T; with T = 0 there is one locate attempt and
\* the first failed check settles the call.
C4_TimeoutBoundary ==
    Prop(options, "timeout").t = "number" =>
        LET T == Prop(options, "timeout").n
        IN /\ status = "Failure" => elapsed >= T
           /\ pc = "wait" => elapsed < T
           /\ T = 0 => attempts <= 1
           /\ (T = 0 /\ status = "Failure") => (attempts = 1 /\ verifyCalls = 1)

\* a call with timeout 1 that failed after one retry
C4_Witness ==
    /\ status = "Failure"
    /\ Prop(options, "timeout") = JSNum(1)
    /\ attempts = 2
    /\ elapsed >= 1

\* C5: attempts are sequential and fresh: an attempt other than the first
\* starts only from the wait that follows a failed check, every attempt
\* computes its set from the DOM of that moment, and the set handed to the
\* assertion check, and yielded when it passes, is the set of that attempt.
C5_SequentialFreshAttempts ==
    [][ /\ attempts' = verifyCalls' + (IF pc' = "verify" THEN 1 ELSE 0)
        /\ attempts' # attempts =>
             /\ attempts' = attempts + 1
             /\ attempts > 0 => (pc = "wait" /\ status = "Retrying" /\ verified = el)
             /\ found' = getValue(dom', prevSubject', withinSubject', component',
                                  text', options').found
             /\ el' = getValue(dom', prevSubject', withinSubject', component',
                               text', options').el
        /\ verifyCalls' # verifyCalls =>
             /\ verifyCalls' = verifyCalls + 1
             /\ verified' = el
             /\ status' = "Success" => yielded' = el ]_vars

\* the second attempt has read a DOM that had changed: its set differs from
\* the one the first attempt handed to the assertion check
C5_Witness ==
    /\ pc = "verify"
    /\ attempts = 2
    /\ mutations > 0
    /\ verified # el
    /\ el # <<>>

-----------------------------------------------------------------------------
(* Properties of the argument handling, under SpecArgs.                    *)

Called == status # "Idle"

\* C2 as stated: every text-like first argument (any string, the empty one
\* included, or any pattern) against a valid component without text
\* capability raises the text-capability error.
C2_AnyTextNeedsCapability ==
    (Called /\ isText(At(rest, 0)) /\ isComponent(component)
            /\ ~isComponentWithText(component)) =>
        (status = "Threw" /\ error = "notext")

\* C2 as amended: every non-empty string and every pattern against a valid
\* component without text capability raises the text-capability error,
\* whatever the DOM holds and whatever the options are.
C2_TextNeedsCapability ==
    (Called /\ isText(At(rest, 0)) /\ At(rest, 0) # StrEmpty
            /\ isComponent(component) /\ ~isComponentWithText(component)) =>
        (status = "Threw" /\ error = "notext")

\* the error is raised with no candidate in the DOM and options supplied
C2_Witness ==
    /\ status = "Threw"
    /\ error = "notext"
    /\ Len(rest) = 2
    /\ At(rest, 1).t = "object"
    /\ find(dom, Body, component.query) = <<>>

\* the argument in the options position, by position and type
OptionsArgument(r) ==
    CASE Len(r) = 1 /\ ~isText(r[1]) -> r[1]
      [] Len(r) = 2 -> r[2]
      [] OTHER -> Undefined

\* C9 as stated (for an options fragment that is a record, or absent): the
\* resolved options carry each of all, log and timeout, with the caller's
\* value where the fragment has the field and the default where it has not.
C9_OptionsComplete ==
    (status = "Pending" /\ OptionsArgument(rest).t \in {"object", "undefined"}) =>
        \A f \in {"all", "log", "timeout"} :
            Prop(options, f) = IF Prop(OptionsArgument(rest), f) # Undefined
                               THEN Prop(OptionsArgument(rest), f)
                               ELSE Prop(defl, f)

\* C10: the first trailing argument is the text exactly when it is a string
\* or a pattern; a sole argument that is not text-like is the options; of
\* two arguments the second is the options; without arguments there is no
\* text and the options are the defaults.  (An options argument that is
\* falsy resolves to the defaults.)
C10_PositionalArguments ==
    Called =>
        /\ text = IF Len(rest) >= 1 /\ rest[1].t \in {"string", "regexp"}
                  THEN rest[1] ELSE Undefined
        /\ options = IF Truthy(OptionsArgument(rest))
                     THEN OptionsArgument(rest) ELSE defl
        /\ rest = <<>> => (text = Undefined /\ options = defl)

\* two arguments, the first not text-like: the second is the options
C10_Witness ==
    /\ Called
    /\ Len(rest) = 2
    /\ rest[1].t = "number"
    /\ rest[2].t = "object"
    /\ options = rest[2]
    /\ text = Undefined

-----------------------------------------------------------------------------
(* Properties of the locate attempt, under SpecLocate.                     *)

Located == status = "Pending" /\ attempts = 1

Subject == resolveSubject(prevSubject, withinSubject)

\* each element contains the next
IsChain(s) == Len(s) >= 2 /\ \A i \in 1..(Len(s) - 1) : Contains(s[i], s[i + 1])

\* the traversal transform of the path the attempt took
Traversal == IF byText(component, text) THEN component.traverseViaText
             ELSE component.traverse

\* C6: when the candidates form a nesting chain of two or more elements and
\* all is false, disambiguation leaves exactly the innermost candidate, on
\* the text path and on the structural path; without a traversal transform
\* that element is what the attempt returns.
C6_InnermostOfChain ==
    (Located /\ IsChain(found) /\ Prop(options, "all") = JSBool(FALSE)) =>
        /\ reduced = <<found[Len(found)]>>
        /\ Traversal = "none" => el = <<found[Len(found)]>>

\* three nested candidates found by text
C6_Witness ==
    /\ Located
    /\ byText(component, text)
    /\ Prop(options, "all") = JSBool(FALSE)
    /\ found = <<1, 2, 3>>
    /\ reduced = <<3>>

Images(tr, s) == {i \in DOMAIN s : ApplyTraversal(tr, s[i]) # <<>>}

\* C7 as stated: with all = true the attempt returns one element for every
\* candidate, none removed, with or without a traversal transform.
C7_AllKeepsEveryCandidate ==
    (Located /\ Prop(options, "all") = JSBool(TRUE)) =>
        /\ reduced = found
        /\ Len(el) = Len(found)
        /\ Traversal = "none" => el = found

\* C7 as amended: with all = true no candidate is removed or reordered by
\* disambiguation; without a traversal transform the attempt returns the
\* candidates themselves, in document order; with one it returns one
\* element for each candidate the transform yields an element for.
C7_AllKeepsCandidates ==
    (Located /\ Prop(options, "all") = JSBool(TRUE)) =>
        /\ reduced = found
        /\ \A i, j \in DOMAIN found : i < j => found[i] < found[j]
        /\ Traversal = "none" => el = found
        /\ Traversal # "none" => Len(el) = Cardinality(Images(Traversal, found))

\* nested candidates, all = true, a transform that yields nothing for one
C7_Witness ==
    /\ Located
    /\ Prop(options, "all") = JSBool(TRUE)
    /\ IsChain(found)
    /\ Traversal = "children"
    /\ Len(el) < Len(found)
    /\ el # <<>>

\* some element under the subject that matches the textQuery, whose
\* rendered text contains the literal, and of which e is (an image of)
FromTextMatch(e) ==
    \E n \in Nodes :
        /\ Contains(Subject, n)
        /\ dom[n].tag = component.textQuery
        /\ IsSubstring(text.s, RenderedText(dom, n))
        /\ IF component.traverseViaText = "none"
           THEN e = n
           ELSE \E k \in DOMAIN ApplyTraversal(component.traverseViaText, n) :
                    e = ApplyTraversal(component.traverseViaText, n)[k]

\* C8 as stated: for a component with text capability and any literal text,
\* every element returned comes from a text match under the subject.
C8_AnyLiteralMatches ==
    (Located /\ isComponentWithText(component) /\ text.t = "string") =>
        \A i \in DOMAIN el : FromTextMatch(el[i])

\* C8 as amended: for a component with text capability and a non-empty
\* literal text, every element returned comes from an element under the
\* subject that matches the textQuery and whose rendered text contains the
\* literal.
C8_LiteralMatches ==
    (Located /\ isComponentWithText(component) /\ text.t = "string"
             /\ text # StrEmpty) =>
        /\ \A i \in DOMAIN reduced :
               /\ Contains(Subject, reduced[i])
               /\ dom[reduced[i]].tag = component.textQuery
               /\ IsSubstring(text.s, RenderedText(dom, reduced[i]))
        /\ \A i \in DOMAIN el : FromTextMatch(el[i])

\* the literal "ab" is found across nested elements inside the subject, while
\* another element with the textQuery's tag lacks it
C8_Witness ==
    /\ Located
    /\ text = StrAB
    /\ prevSubject = 1
    /\ component.traverseViaText = "parent"
    /\ el # <<>>
    /\ \E n \in Nodes : /\ dom[n].tag = component.textQuery
                        /\ ~IsSubstring(text.s, RenderedText(dom, n))

-----------------------------------------------------------------------------
(* Non-record options and validation precedence, under SpecArgs.           *)

\* C11 as stated: resolving the arguments raises nothing, and a trailing
\* argument in the options position that is not an options record (a number,
\* a boolean, null, a string in second position) is treated as no options:
\* the resolved options are the defaults.
C11_NonRecordOptionsIgnored ==
    (Called /\ Len(rest) >= 1 /\ OptionsArgument(rest).t # "object") =>
        /\ error \in {"none", "react", "invalid", "notext"}
        /\ status = "Pending" => options = defl

\* a number in the options position has become the options of the call
C11_Witness ==
    /\ status = "Pending"
    /\ rest = <<JSNum(5)>>
    /\ options = JSNum(5)
    /\ Prop(options, "timeout") = Undefined

\* C16: a component argument that is not a valid descriptor raises one error
\* when it is a React component and another one when it is anything else,
\* and either of them is raised, not the text-capability error, when a text
\* is supplied as well.
C16_ShapeErrorsFirst ==
    (Called /\ ~isComponent(component)) =>
        /\ status = "Threw"
        /\ isReact(component) => error = "react"
        /\ ~isReact(component) => error = "invalid"
        /\ error # "notext"

\* a React component passed with a text, which it has no capability for
C16_Witness ==
    /\ status = "Threw"
    /\ error = "react"
    /\ isReact(component)
    /\ Truthy(text)
    /\ ~isComponentWithText(component)

-----------------------------------------------------------------------------
(* Properties of the log record, under Spec.                               *)

\* C13: however many retries a call makes, it has made one log record when
\* options.log is true and none when options.log is false; a retry makes no
\* further record and leaves the record as it is, and when the call succeeds
\* the record carries the yielded element set and its count.
C13_OneLogRecord ==
    [][ /\ status' \in {"Pending", "Retrying"} \cup Settled =>
              /\ Prop(options', "log") = JSBool(TRUE) =>
                     (logCount' = 1 /\ logEntry' # NoLog)
              /\ Prop(options', "log") = JSBool(FALSE) =>
                     (logCount' = 0 /\ logEntry' = NoLog)
        /\ attempts > 0 => logCount' = logCount
        /\ (attempts' # attempts /\ attempts > 0) => logEntry' = logEntry
        /\ (status' = "Success" /\ logEntry' # NoLog) =>
              /\ logEntry'.Yielded = yielded'
              /\ logEntry'.el = yielded'
              /\ logEntry'.Elements = Len(yielded')
        /\ (status' \in {"Pending", "Retrying", "Failure"} /\ logEntry' # NoLog) =>
              logEntry'.Yielded = NotSet ]_vars

\* a call with logging on that succeeded at its second attempt with one
\* element
C13_Witness ==
    /\ status = "Success"
    /\ Prop(options, "log") = JSBool(TRUE)
    /\ attempts >= 2
    /\ logCount = 1
    /\ logEntry.Elements = 1
    /\ logEntry.Yielded = yielded

-----------------------------------------------------------------------------
(* Properties of disambiguation and traversal, under SpecLocate.           *)

\* C19: whenever the all option is not true, the attempt returns at most one
\* element, on the text path and on the structural path, for every DOM and
\* every traversal transform; an empty candidate set stays empty and is
\* returned as a value, no error being raised.
C19_AtMostOneWithoutAll ==
    (Located /\ Prop(options, "all") # JSBool(TRUE)) =>
        /\ error = "none"
        /\ Len(reduced) <= 1
        /\ Len(el) <= 1
        /\ found = <<>> => (reduced = <<>> /\ el = <<>>)

\* three candidates on the text path, all not given, and a traversal
\* transform applied to the one that is kept
C19_Witness ==
    /\ Located
    /\ byText(component, text)
    /\ Prop(options, "all") = Undefined
    /\ Len(found) >= 3
    /\ Traversal = "parent"
    /\ Len(el) = 1
    /\ el # reduced

\* C17 as stated: the traversal transform is applied one-to-one: the attempt
\* returns as many elements as candidates survived disambiguation, element i
\* being the transform of candidate i, whatever the transform yields.
C17_TransformOneToOne ==
    (Located /\ Traversal # "none") =>
        /\ Len(el) = Len(reduced)
        /\ \A i \in DOMAIN reduced :
               ApplyTraversal(Traversal, reduced[i]) = <<el[i]>>

\* the candidates before candidate k for which the transform yields an element
ImagesBefore(tr, s, k) == {j \in Images(tr, s) : j < k}

\* C17 as amended: the attempt returns, in the order of the candidates, the
\* first element of the transform's result for each surviving candidate for
\* which the transform yields an element, and nothing for the others; it is
\* one-to-one when the transform yields one element for every candidate.
C17_TransformFirstImages ==
    (Located /\ Traversal # "none") =>
        /\ Len(el) = Cardinality(Images(Traversal, reduced))
        /\ \A k \in Images(Traversal, reduced) :
               el[Cardinality(ImagesBefore(Traversal, reduced, k)) + 1]
                   = ApplyTraversal(Traversal, reduced[k])[1]
        /\ (\A k \in DOMAIN reduced : Len(ApplyTraversal(Traversal, reduced[k])) = 1)
               => /\ Len(el) = Len(reduced)
                  /\ \A i \in DOMAIN reduced :
                         ApplyTraversal(Traversal, reduced[i]) = <<el[i]>>

\* several candidates, the transform yielding several elements for one of
\* them and none for another
C17_Witness ==
    /\ Located
    /\ Traversal = "children"
    /\ Len(reduced) >= 2
    /\ \E k \in DOMAIN reduced : Len(ApplyTraversal(Traversal, reduced[k])) >= 2
    /\ \E k \in DOMAIN reduced : ApplyTraversal(Traversal, reduced[k]) = <<>>
    /\ el # <<>>

-----------------------------------------------------------------------------
(* Omitted option fields, under Spec.                                      *)

\* the options record o with all = false and log = true where o omits them
WithDefaults(o) ==
    JSObj(IF Prop(o, "all") = Undefined THEN JSBool(FALSE) ELSE Prop(o, "all"),
          IF Prop(o, "log") = Undefined THEN JSBool(TRUE) ELSE Prop(o, "log"),
          Prop(o, "timeout"))

\* C20: a call whose options fragment omits all and/or log behaves in every
\* attempt like the same call with the omitted fields set to all = false and
\* log = true: the same candidates, the same disambiguation, the same element
\* set returned and yielded, and a log record is made when log is omitted.
C20_OmittedAsDefaults ==
    [][ /\ (attempts' # attempts /\ options'.t = "object") =>
              /\ found' = getValue(dom', prevSubject', withinSubject', component',
                                   text', WithDefaults(options')).found
              /\ reduced' = getValue(dom', prevSubject', withinSubject', component',
                                     text', WithDefaults(options')).reduced
              /\ el' = getValue(dom', prevSubject', withinSubject', component',
                                text', WithDefaults(options')).el
              /\ Prop(options', "log") = Undefined => (logCount' = 1 /\ logEntry' # NoLog)
              /\ attempts = 0 =>
                     logEntry' = makeLog(component', rest', text',
                                         WithDefaults(options'), prevSubject',
                                         withinSubject')
        /\ (status' = "Success" /\ status # "Success") => yielded' = el' ]_vars

\* a second attempt of a call that omits all and log: several candidates are
\* reduced to one, and there is one log record
C20_Witness ==
    /\ attempts = 2
    /\ Prop(options, "all") = Undefined
    /\ Prop(options, "log") = Undefined
    /\ options.t = "object"
    /\ Len(found) >= 2
    /\ Len(el) = 1
    /\ logCount = 1

-----------------------------------------------------------------------------
(* The search scope, under SpecScope.                                      *)

\* C12: in every locate attempt the search scope is the explicit subject of
\* the call if there is one, otherwise the ambient scope if one is set,
\* otherwise the document root, as they are at that attempt: a change of the
\* ambient scope between two attempts is seen by the later one.
C12_ScopeResolvedEachAttempt ==
    [][ attempts' # attempts =>
          /\ scope' = IF prevSubject' # NoElement THEN prevSubject'
                        ELSE IF withinSubject' # NoElement THEN withinSubject'
                        ELSE Body
          /\ \A i \in DOMAIN found' :
                 found'[i] # scope' /\ Contains(scope', found'[i]) ]_vars

\* a second attempt that searched another ambient scope than the one the
\* call started in, and found something there
C12_Witness ==
    /\ attempts = 2
    /\ prevSubject = NoElement
    /\ withinSubject # NoElement
    /\ logEntry # NoLog
    /\ logEntry.appliesTo # withinSubject
    /\ scope = withinSubject
    /\ found # <<>>

-----------------------------------------------------------------------------
(* Ownership of the options record, under SpecArgs.                        *)

\* C18 as stated: the options record resolved for a call is a fresh record
\* owned by that call, never an object the caller still holds (so that what
\* a recipient writes into it cannot reach a later call that passes the same
\* fragment).
C18_OptionsOwnedByCall ==
    (status = "Pending" /\ options.t = "object") =>
        optionsIdentity(rest) = "defl"

\* the options of the call are the very object the caller passed as fragment
C18_Witness ==
    /\ status = "Pending"
    /\ Len(rest) = 2
    /\ rest[2].t = "object"
    /\ optionsIdentity(rest) = "argument"
    /\ options = rest[2]

-----------------------------------------------------------------------------
(* Calls in sequence and the clear command, under SpecQueue.               *)

\* C14: two calls queued one after the other never interleave: the queue
\* moves on only from a call that has settled with success, the command
\* chained on the first call has acted before the second call makes its
\* first attempt, and that attempt reads the DOM of its own moment, so the
\* second call sees the page as the first left it.
C14_CallsDoNotInterleave ==
    [][ /\ ip' # ip =>
              /\ pc = "done"
              /\ status = "Success"
              /\ yielded = el
              /\ ip' = ip + 2
        /\ (attempts = 0 /\ attempts' = 1 /\ ip > 1) =>
              /\ status = "Idle"
              /\ pc = "idle"
              /\ Len(clears) = 1
              /\ \A i \in DOMAIN clears[1].on : values[clears[1].on[i]] = <<>>
              /\ el' = getValue(dom, NoElement, withinSubject, Input, StrA, defl).el
        /\ (ip = 3 /\ verifyCalls = 0 /\ verifyCalls' = 1 /\ el = clears[1].on) =>
              status' = "Success" ]_vars

\* the first call settled after a retry, its clear emptied a control that
\* had a value, and the second call found the same control and passed its
\* check of the empty value at its first attempt
C14_Witness ==
    /\ script = ClearsDateInput
    /\ ip = 3
    /\ Len(clears) = 1
    /\ clears[1].after >= 2
    /\ clears[1].had
    /\ status = "Success"
    /\ attempts = 1
    /\ yielded = clears[1].on

====
